---- MODULE Spec2Model ----
(***************************************************************************)
(* RunnerScene of src/main.ts as a state machine.                          *)
(*                                                                         *)
(* The scene's fields are the variables.  One frame of the host engine is  *)
(* two steps: WorldStep (the arcade physics world advances the bodies by   *)
(* the frame time and runs the player/obstacle overlap callback) and then  *)
(* Update (RunnerScene.update with the same frame time).  Input handlers   *)
(* and fetch completions run between frames.                               *)
(*                                                                         *)
(* Units are those of the source: pixels, pixels per second, milliseconds. *)
(***************************************************************************)
EXTENDS Integers, Sequences, FiniteSets, TLC

\* ---------------------------------------------------------------- config
DESIGN_WIDTH == 800
DESIGN_HEIGHT == 450
BG_BULL == "0x0f1a12"
BG_BEAR == "0x0f141a"
CANDLE_BULL == "0x2ea043"
CANDLE_BEAR == "0xf85149"
PRICE_INTERVAL_MS == 5000

\* gameplay tuning: field initialisers and the literals of create/update
BaseSpeed == 180
MaxSpeed == 420
SpeedStep == 8
BaseSpawnDelay == 1200
MinSpawnDelay == 885
SpawnDelayStep == 10
jumpVelocity == 0 - 630
gapMin == 264
gapMax == 308
GapTopMin == 130
ExitX == 0 - 60
TopExitY == 0 - 40
PlayerRadius == 18
CandleWidth == 26
PlayerX == DESIGN_WIDTH \div 4
spawnX == DESIGN_WIDTH + 24

\* Math.floor(height * 0.85)
groundY == (DESIGN_HEIGHT * 85) \div 100

\* resting height of the coin: created at groundY - 18, clamped to it by update
RestY == groundY - PlayerRadius

Min(a, b) == IF a < b THEN a ELSE b
Max(a, b) == IF a > b THEN a ELSE b

\* number | null, and parseFloat's number | NaN: the empty sequence is null/NaN
Null == << >>
Num(n) == << n >>
IsNull(v) == v = << >>
Val(v) == v[1]

\* ---------------------------------------------------------------- bounds
\* frame times offered by the engine (ms): multiples of 250, so that every
\* speed of the ramp moves an obstacle by a whole number of pixels; the
\* larger one spans several spawn intervals
Deltas == {1250, 2500}
PriceDeltas == {2500}
RampDeltas == {1000}
\* for the poll timer: an empty frame, a short one, and a stall longer than
\* the poll interval and than several spawn intervals
PollDeltas == {0, 1000, 6000}
\* moments of a step at which an overlap may be reported (ms into the step,
\* 0 for none), on the same grid
HitTimes == { t \in 0..2500 : t % 250 = 0 }
\* a session of Spec or SpecPrice stops stepping once this score is reached
MaxScore == 2
\* and a session of SpecRamp at this one, past the end of the difficulty ramp
RampMaxScore == 33
\* price fetches in flight
MaxPending == 2
\* calls of onGameOver counted in one session
MaxOverCalls == 2
\* scene starts (the first create and the restarts)
MaxSessions == 2

\* ----------------------------------------------------------------- state
\* score .. priceTrend are the scene's fields of the same names.
\* bgColor          the camera's background colour
\* priceText        the text of the price label
\* obstacles        the children of the obstacle group, in insertion order
\* player           the coin's arcade body
\* pending          the fetchPriceOnce calls awaiting their response, oldest
\*                  first, each with the session that issued it
\* overlays         game-over overlays in the scene
\* restartListeners doRestart registrations per event
\* pc, frameDelta   where the frame stands: "world" before the physics step,
\*                  "update" before update(), and the frame time in between
\* Kept for the properties only:
\* session          number of the scene start the game is in
\* overCalls        calls of onGameOver in the session
\* nextPair         number the next spawned pair will get
\* contrib          per pair of the session, the score it has added
\* hist             the last two prices applied, oldest first
\* applied          the fetch whose price was applied last, as it stood when
\*                  it completed; empty before the first
VARIABLES
    score, speed, spawnDelay, spawnAcc, priceAcc, gameOverShown,
    lastPrice, curPrice, priceTrend,
    bgColor, priceText,
    obstacles, player,
    pending,
    overlays, restartListeners, overCalls,
    session, pc, frameDelta,
    nextPair, contrib,
    hist, applied

vars == << score, speed, spawnDelay, spawnAcc, priceAcc, gameOverShown,
           lastPrice, curPrice, priceTrend, bgColor, priceText,
           obstacles, player, pending, overlays, restartListeners,
           overCalls, session, pc, frameDelta, nextPair, contrib, hist,
           applied >>

priceVars == << lastPrice, curPrice, priceTrend, bgColor, priceText, hist,
               applied >>
rampVars == << score, speed, spawnDelay >>
timerVars == << spawnAcc, priceAcc >>
overVars == << gameOverShown, overlays, restartListeners, overCalls >>
pairVars == << nextPair, contrib >>
frameVars == << pc, frameDelta >>

\* --------------------------------------------------- price: parse, format
Digits == << "0", "1", "2", "3", "4", "5", "6", "7", "8", "9" >>
IsDigit(c) == \E d \in 1..10 : Digits[d] = c
DigitVal(c) == (CHOOSE d \in 1..10 : Digits[d] = c) - 1

\* length of the longest prefix of s made of digits
RECURSIVE DigitPrefix(_)
DigitPrefix(s) ==
    IF s = << >> \/ ~IsDigit(Head(s)) THEN 0 ELSE 1 + DigitPrefix(Tail(s))

RECURSIVE DigitsValue(_, _)
DigitsValue(s, acc) ==
    IF s = << >> THEN acc ELSE DigitsValue(Tail(s), 10 * acc + DigitVal(Head(s)))

\* parseFloat on a string of characters: the number spelled by the longest
\* numeric prefix, NaN (Null) when there is none.  The payloads of the model
\* are unsigned integers, so the numeric prefix is a run of digits.
parseFloat(s) ==
    LET k == DigitPrefix(s)
    IN  IF k = 0 THEN Null ELSE Num(DigitsValue(SubSeq(s, 1, k), 0))

\* String(undefined), what parseFloat sees when the body has no price field
UndefinedStr == << "u", "n", "d", "e", "f", "i", "n", "e", "d" >>

\* j.price of a parsed body
PriceField(j) == IF j.hasPrice THEN j.price ELSE UndefinedStr

\* three digits, zero padded
Pad3(n) ==
    IF n < 10 THEN "00" \o ToString(n)
    ELSE IF n < 100 THEN "0" \o ToString(n)
    ELSE ToString(n)

\* Number.toLocaleString with grouping, as the en-US locale renders an integer
RECURSIVE toLocaleString(_)
toLocaleString(n) ==
    IF n < 1000 THEN ToString(n)
    ELSE toLocaleString(n \div 1000) \o "," \o Pad3(n % 1000)

PriceLabel(p) == "BTC: " \o toLocaleString(p) \o " USDT"
InitialPriceLabel == "BTC: ..."
ErrorLabel == "BTC: fetch error"

\* TrendOf with the comparison the wrong way round
TrendOfReversed(last, cur) ==
    IF IsNull(last) \/ Val(cur) = Val(last) THEN "flat"
    ELSE IF Val(cur) < Val(last) THEN "up"
    ELSE "down"

\* trend detection of fetchPriceOnce, on the fields after the shift
TrendOf(last, cur) ==
    IF IsNull(last) \/ Val(cur) = Val(last) THEN "flat"
    ELSE IF Val(cur) > Val(last) THEN "up"
    ELSE "down"

\* lastPrice after a parsed sample: shifted only when a current price exists
ShiftLast(last, cur) == IF ~IsNull(cur) THEN cur ELSE last

BackgroundFor(trend) == IF trend = "up" THEN BG_BULL ELSE BG_BEAR

\* what a fetch can come back with: the request rejects, or a response whose
\* body is not JSON, is the JSON value null, or is a JSON object
P60000 == << "6", "0", "0", "0", "0" >>
P60500 == << "6", "0", "5", "0", "0" >>
Bodies ==
    { [json |-> "object", hasPrice |-> TRUE, price |-> P60000],
      [json |-> "object", hasPrice |-> TRUE, price |-> P60500],
      [json |-> "object", hasPrice |-> TRUE, price |-> << "a", "b", "c" >>],
      [json |-> "object", hasPrice |-> TRUE, price |-> << >>],
      [json |-> "object", hasPrice |-> FALSE, price |-> << >>],
      [json |-> "null", hasPrice |-> FALSE, price |-> << >>],
      [json |-> "invalid", hasPrice |-> FALSE, price |-> << >>] }
Responses ==
    { [net |-> "error", ok |-> FALSE, body |-> b] :
        b \in { x \in Bodies : x.json = "invalid" } }
    \cup { [net |-> "done", ok |-> TRUE, body |-> b] : b \in Bodies }
    \cup { [net |-> "done", ok |-> FALSE, body |-> b] :
             b \in { x \in Bodies : ~x.hasPrice } }

\* the awaits of fetchPriceOnce throw: fetch rejects, r.json() rejects, or
\* j is null and j.price is a TypeError.  r.ok is never read.
Throws(resp) == resp.net = "error" \/ resp.body.json # "object"

\* Parsed with NaN replaced by 0, as parseFloat(j.price) || 0 would
ParsedOrZero(resp) ==
    IF IsNull(parseFloat(PriceField(resp.body))) THEN Num(0)
    ELSE parseFloat(PriceField(resp.body))

\* the try block's parse, for a response that does not throw
Parsed(resp) == parseFloat(PriceField(resp.body))

\* the fetches in flight once fetch i has completed; when it brought a price
\* the fetches issued before it and still in flight are marked as overtaken
Remaining(fetches, i, taken) ==
    [ k \in 1..(i - 1) |->
        IF taken THEN [ fetches[k] EXCEPT !.overtaken = TRUE ] ELSE fetches[k] ]
    \o SubSeq(fetches, i + 1, Len(fetches))

\* Applies with a guard against stale results: the response of a fetch that
\* a later one has overtaken is dropped
AppliesIfLatest(fetch, resp) ==
    ~Throws(resp) /\ ~IsNull(Parsed(resp)) /\ ~fetch.overtaken

\* the response of `fetch` reaches the block under if (!isNaN(p))
Applies(fetch, resp) == ~Throws(resp) /\ ~IsNull(Parsed(resp))

\* the continuation of fetchPriceOnce after its awaits, for in-flight fetch i
FetchComplete(i, resp) ==
    /\ pc = "world"
    /\ i \in 1..Len(pending)
    /\ pending' = Remaining(pending, i, Applies(pending[i], resp))
    /\ IF Throws(resp)
       THEN /\ priceText' = ErrorLabel
            /\ UNCHANGED << lastPrice, curPrice, priceTrend, bgColor, hist,
                            applied >>
       ELSE LET p == Parsed(resp)
                last == ShiftLast(lastPrice, curPrice)
            IN  IF Applies(pending[i], resp)
                THEN /\ applied' = << pending[i] >>
                     /\ lastPrice' = last
                     /\ curPrice' = p
                     /\ priceTrend' = TrendOf(last, p)
                     /\ priceText' = PriceLabel(Val(p))
                     /\ bgColor' = BackgroundFor(TrendOf(last, p))
                     /\ hist' = IF Len(hist) = 2 THEN << hist[2], Val(p) >>
                                ELSE Append(hist, Val(p))
                ELSE UNCHANGED priceVars
    /\ UNCHANGED << rampVars, timerVars, overVars, obstacles, player,
                    session, frameVars, pairVars >>

\* ------------------------------------------------------------- obstacles
\* Math.random() < 0.5, and the two Phaser.Math.Between draws of one spawn:
\* the ends of both ranges and a value between them
GapTopMax == Max(170, groundY - 220)
Draws ==
    { [coin |-> c, gapTop |-> t, gap |-> g] :
        c \in BOOLEAN,
        t \in {GapTopMin, (GapTopMin + GapTopMax) \div 2, GapTopMax},
        g \in {gapMin, (gapMin + gapMax) \div 2, gapMax} }

\* Bullish that leaves the trend out: the colour is random throughout
BullishRandom(trend, coin) == coin

\* colour decision of spawnObstacle
Bullish(trend, coin) ==
    IF trend = "up" THEN TRUE
    ELSE IF trend = "down" THEN FALSE
    ELSE coin

CandleColor(bullish) == IF bullish THEN CANDLE_BULL ELSE CANDLE_BEAR

topHeight(gapTop) == Max(60, gapTop - 40)
bottomHeight(gapTop, gap) == Max(80, groundY - (gapTop + gap))

\* one rectangle with its arcade body; yTop is its upper edge.  gap, the gap
\* size drawn for its pair, is kept for the properties only.
Candle(pair, piece, yTop, h, color, v, gap) ==
    [ pair |-> pair, piece |-> piece, x |-> spawnX, yTop |-> yTop, h |-> h,
      color |-> color, vx |-> 0 - v, vy |-> 0, allowGravity |-> FALSE,
      scored |-> FALSE, gap |-> gap ]

\* the two rectangles spawnObstacle adds to the group, top first
SpawnPair(pair, trend, v, draw) ==
    LET color == CandleColor(Bullish(trend, draw.coin))
        th == topHeight(draw.gapTop)
        bh == bottomHeight(draw.gapTop, draw.gap)
    IN  << Candle(pair, "top", 0, th, color, v, draw.gap),
           Candle(pair, "bottom", groundY - bh, bh, color, v, draw.gap) >>

\* The scene fields update() works on, as a record threaded through its loops
\* g: [score, speed, spawnDelay, spawnAcc, obstacles, nextPair, contrib]

\* SpawnLoop as a timer that fires once and starts again from zero
SpawnLoopReset(g, trend, draws, k) ==
    IF g.spawnAcc >= g.spawnDelay
    THEN [ g EXCEPT !.spawnAcc = 0,
                    !.obstacles = @ \o SpawnPair(g.nextPair, trend, g.speed, draws[k]),
                    !.nextPair = @ + 1,
                    !.contrib = Append(@, 0) ]
    ELSE g

\* while (spawnAcc >= spawnDelay) { spawnAcc -= spawnDelay; spawnObstacle() }
\* the k-th spawn of the frame uses draws[k]
RECURSIVE SpawnLoop(_, _, _, _)
SpawnLoop(g, trend, draws, k) ==
    IF g.spawnAcc >= g.spawnDelay
    THEN SpawnLoop(
            [ g EXCEPT !.spawnAcc = @ - g.spawnDelay,
                       !.obstacles = @ \o SpawnPair(g.nextPair, trend, g.speed, draws[k]),
                       !.nextPair = @ + 1,
                       !.contrib = Append(@, 0) ],
            trend, draws, k + 1)
    ELSE g


\* RampSpeed without the cap
RampSpeedNoCap(v) == v + SpeedStep
\* RampSpawnDelay without the floor
RampSpawnDelayNoFloor(d) == d - SpawnDelayStep

\* difficulty ramp of one scoring event
RampSpeed(v) == Min(v + SpeedStep, MaxSpeed)
RampSpawnDelay(d) == Max(d - SpawnDelayStep, MinSpawnDelay)


\* ScoreObject with the sign of the score step slipped
ScoreObjectDown(g, o) ==
    [ g EXCEPT !.score = @ - 1,
               !.speed = Min(@ + SpeedStep, MaxSpeed),
               !.spawnDelay = Max(@ - SpawnDelayStep, MinSpawnDelay),
               !.contrib[o.pair] = @ + 1 ]

\* the body of the if (!obj._scored) block; the object is destroyed right
\* after it, so its _scored flag is not kept
ScoreObject(g, o) ==
    [ g EXCEPT !.score = @ + 1,
               !.speed = RampSpeed(@),
               !.spawnDelay = RampSpawnDelay(@),
               !.contrib[o.pair] = @ + 1 ]

\* EachObstacle without the else branch: an obstacle keeps the velocity it
\* was created with
RECURSIVE EachObstacleKeep(_, _, _)
EachObstacleKeep(g, objs, i) ==
    IF i > Len(objs) THEN g
    ELSE LET o == objs[i]
         IN  IF o.x < ExitX
             THEN EachObstacleKeep(IF ~o.scored THEN ScoreObject(g, o) ELSE g,
                                   objs, i + 1)
             ELSE EachObstacleKeep([ g EXCEPT !.obstacles = Append(@, o) ],
                                   objs, i + 1)

\* obstacles.children.each(...): the entries as they were when the iteration
\* began, in insertion order; g.obstacles collects the ones not destroyed
RECURSIVE EachObstacle(_, _, _)
EachObstacle(g, objs, i) ==
    IF i > Len(objs) THEN g
    ELSE LET o == objs[i]
         IN  IF o.x < ExitX
             THEN EachObstacle(IF ~o.scored THEN ScoreObject(g, o) ELSE g,
                               objs, i + 1)
             ELSE EachObstacle(
                     [ g EXCEPT !.obstacles =
                                  Append(@, [o EXCEPT !.vx = 0 - g.speed]) ],
                     objs, i + 1)

\* Freeze that stops short of the last obstacle of the group
FreezeButLast(objs) ==
    [ i \in 1..Len(objs) |->
        IF i < Len(objs) THEN [ objs[i] EXCEPT !.vx = 0, !.vy = 0 ] ELSE objs[i] ]

\* body.setVelocity(0) on every obstacle
Freeze(objs) == [ i \in 1..Len(objs) |-> [ objs[i] EXCEPT !.vx = 0, !.vy = 0 ] ]

\* OnGameOver without the latch test
OnGameOverUnlatched(o) ==
    [ gameOverShown |-> TRUE,
      obstacles |-> [ i \in 1..Len(o.obstacles) |->
                        [ o.obstacles[i] EXCEPT !.vx = 0, !.vy = 0 ] ],
      overlays |-> o.overlays + 1,
      restartListeners |->
          [ ev \in DOMAIN o.restartListeners |-> o.restartListeners[ev] + 1 ],
      calls |-> o.calls + 1 ]

\* onGameOver on the fields it touches:
\* o = [gameOverShown, obstacles, overlays, restartListeners, calls], where
\* overlays counts the game-over overlays in the scene (text, prompt and
\* blocker are added together), restartListeners the doRestart registrations
\* per event, and calls the invocations of onGameOver in the session
OnGameOver(o) ==
    IF o.gameOverShown THEN [ o EXCEPT !.calls = @ + 1 ]
    ELSE [ gameOverShown |-> TRUE,
           obstacles |-> Freeze(o.obstacles),
           overlays |-> o.overlays + 1,
           restartListeners |->
               [ ev \in DOMAIN o.restartListeners |-> o.restartListeners[ev] + 1 ],
           calls |-> o.calls + 1 ]

OverFields ==
    [ gameOverShown |-> gameOverShown, obstacles |-> obstacles,
      overlays |-> overlays, restartListeners |-> restartListeners,
      calls |-> overCalls ]

NoListeners == [ ev \in {"pointerdown", "keydown"} |-> 0 ]

\* ---------------------------------------------------------------- player
\* The coin's body is integrated by the engine.  The model keeps its centre
\* y, its vertical velocity and the two contact flags tryJump reads, and lets
\* a world step leave the body in any of these representative conditions.
Body(y, vy, blocked, touching) ==
    [ y |-> y, vy |-> vy, blockedDown |-> blocked, touchingDown |-> touching ]

Resting == Body(RestY, 0, TRUE, TRUE)
EngineBodies ==
    { Resting,
      Body(RestY, 0, FALSE, TRUE),
      Body(RestY + 6, 300, TRUE, FALSE),
      Body(RestY - 100, 300, FALSE, FALSE),
      Body(TopExitY - 10, 0 - 200, FALSE, FALSE) }

\* "clamp to ground" of update: b.y is the body's upper edge, b.height its
\* diameter
ClampToGround(b) ==
    IF (b.y - PlayerRadius) + 2 * PlayerRadius > groundY
    THEN [ b EXCEPT !.y = (groundY - 2 * PlayerRadius) + PlayerRadius,
                    !.vy = Max(0, @) ]
    ELSE b

\* JumpBody without the ground-contact test: a jump in mid-air
JumpBodyAirborne(over, b) ==
    IF over THEN b ELSE [ b EXCEPT !.vy = jumpVelocity ]

\* tryJump on the body
JumpBody(over, b) ==
    IF over THEN b
    ELSE IF b.blockedDown \/ b.touchingDown THEN [ b EXCEPT !.vy = jumpVelocity ]
    ELSE b

\* ----------------------------------------------------------------- create
\* Fresh without the forced first fetch: priceAcc left at its initialiser
FreshUnforced ==
    [ bgColor |-> BG_BEAR,
      player |-> Body(RestY, 0, FALSE, FALSE),
      obstacles |-> << >>,
      score |-> 0,
      priceText |-> InitialPriceLabel,
      spawnAcc |-> 0,
      priceAcc |-> 0,
      spawnDelay |-> BaseSpawnDelay,
      speed |-> BaseSpeed,
      gameOverShown |-> FALSE,
      overlays |-> 0,
      restartListeners |-> NoListeners ]

\* what create() leaves in the fields it assigns; the price fields are not
\* among them
Fresh ==
    [ bgColor |-> BG_BEAR,
      player |-> Body(RestY, 0, FALSE, FALSE),
      obstacles |-> << >>,
      score |-> 0,
      priceText |-> InitialPriceLabel,
      spawnAcc |-> 0,
      priceAcc |-> PRICE_INTERVAL_MS,
      spawnDelay |-> BaseSpawnDelay,
      speed |-> BaseSpeed,
      gameOverShown |-> FALSE,
      overlays |-> 0,
      restartListeners |-> NoListeners ]

\* create() on a scene that is starting again
Create ==
    /\ bgColor' = Fresh.bgColor
    /\ player' = Fresh.player
    /\ obstacles' = Fresh.obstacles
    /\ score' = Fresh.score
    /\ priceText' = Fresh.priceText
    /\ spawnAcc' = Fresh.spawnAcc
    /\ priceAcc' = Fresh.priceAcc
    /\ spawnDelay' = Fresh.spawnDelay
    /\ speed' = Fresh.speed
    /\ gameOverShown' = Fresh.gameOverShown
    /\ overlays' = Fresh.overlays
    /\ restartListeners' = Fresh.restartListeners
    /\ overCalls' = 0
    /\ nextPair' = 1
    /\ contrib' = << >>
    /\ pc' = "world"
    /\ frameDelta' = 0

\* field initialisers, then the first create()
Init ==
    /\ lastPrice = Null
    /\ curPrice = Null
    /\ priceTrend = "flat"
    /\ hist = << >>
    /\ applied = << >>
    /\ pending = << >>
    /\ session = 1
    /\ bgColor = Fresh.bgColor
    /\ player = Fresh.player
    /\ obstacles = Fresh.obstacles
    /\ score = Fresh.score
    /\ priceText = Fresh.priceText
    /\ spawnAcc = Fresh.spawnAcc
    /\ priceAcc = Fresh.priceAcc
    /\ spawnDelay = Fresh.spawnDelay
    /\ speed = Fresh.speed
    /\ gameOverShown = Fresh.gameOverShown
    /\ overlays = Fresh.overlays
    /\ restartListeners = Fresh.restartListeners
    /\ overCalls = 0
    /\ nextPair = 1
    /\ contrib = << >>
    /\ pc = "world"
    /\ frameDelta = 0

\* ------------------------------------------------------------- world step
\* the horizontal extents of the coin's body and of a candle at x overlap
OverlapsX(x) ==
    /\ x - CandleWidth \div 2 < PlayerX + PlayerRadius
    /\ x + CandleWidth \div 2 > PlayerX - PlayerRadius

\* an arcade body after `ms` milliseconds at its velocity
Advance(o, ms) ==
    [ o EXCEPT !.x = @ + (o.vx * ms) \div 1000,
               !.yTop = @ + (o.vy * ms) \div 1000 ]

AdvanceAll(objs, ms) == [ i \in 1..Len(objs) |-> Advance(objs[i], ms) ]

\* One physics step of the frame: every obstacle moves by its velocity for
\* delta ms and the coin's body ends as `body`.  When hitAt > 0 the overlap
\* callback of create() runs hitAt ms into the step, with the obstacles where
\* they are at that moment, and the step then goes on.  The callback can run
\* only while some candle is level with the coin horizontally; whether they
\* also meet vertically depends on the body's path, which the model leaves
\* open.  hitAt = 0 is a step without a reported overlap.  Once the game is
\* over the obstacles stand still and every moment of the step gives the
\* same report: the one at the end of the step stands for them all.
WorldStep(delta, hitAt, body) ==
    /\ pc = "world"
    /\ hitAt \in 0..delta
    /\ (gameOverShown /\ hitAt > 0) => hitAt = delta
    /\ LET at == IF hitAt > 0 THEN hitAt ELSE delta
           moved == AdvanceAll(obstacles, at)
           level == { i \in 1..Len(moved) : OverlapsX(moved[i].x) } # { }
           before == [ OverFields EXCEPT !.obstacles = moved ]
           after == IF hitAt > 0 THEN OnGameOver(before) ELSE before
       IN  /\ hitAt > 0 => level
           /\ obstacles' = AdvanceAll(after.obstacles, delta - at)
           /\ gameOverShown' = after.gameOverShown
           /\ overlays' = after.overlays
           /\ restartListeners' = after.restartListeners
           /\ overCalls' = after.calls
    /\ player' = body
    /\ pc' = "update"
    /\ frameDelta' = delta
    /\ UNCHANGED << rampVars, timerVars, priceVars, pending, session, pairVars >>

\* ----------------------------------------------------------------- update
\* a fetchPriceOnce call awaiting its response, issued in session s
NewFetch(s) == [ session |-> s, overtaken |-> FALSE ]

\* PollAcc as a timer that keeps the time past the interval
PollAccCarry(acc) ==
    IF acc >= PRICE_INTERVAL_MS THEN acc - PRICE_INTERVAL_MS ELSE acc

\* priceAcc after the poll test, for acc = priceAcc + delta
PollAcc(acc) == IF acc >= PRICE_INTERVAL_MS THEN 0 ELSE acc

\* update(_, delta) with delta the frame time of the world step before it;
\* draws are the random numbers its spawns consume
Update(draws) ==
    /\ pc = "update"
    /\ pc' = "world"
    /\ frameDelta' = 0
    /\ IF gameOverShown
       THEN UNCHANGED << rampVars, timerVars, priceVars, pending, session,
                         pairVars, overVars, obstacles, player >>
       ELSE LET acc == priceAcc + frameDelta
                fetch == acc >= PRICE_INTERVAL_MS
                g0 == [ score |-> score, speed |-> speed,
                        spawnDelay |-> spawnDelay,
                        spawnAcc |-> spawnAcc + frameDelta,
                        obstacles |-> obstacles,
                        nextPair |-> nextPair, contrib |-> contrib ]
                g1 == SpawnLoop(g0, priceTrend, draws, 1)
                g2 == EachObstacle([ g1 EXCEPT !.obstacles = << >> ],
                                   g1.obstacles, 1)
                before == [ OverFields EXCEPT !.obstacles = g2.obstacles ]
                after == IF player.y < TopExitY THEN OnGameOver(before)
                         ELSE before
            IN  /\ player' = ClampToGround(player)
                /\ priceAcc' = PollAcc(acc)
                /\ pending' = IF fetch THEN Append(pending, NewFetch(session))
                              ELSE pending
                /\ spawnAcc' = g2.spawnAcc
                /\ score' = g2.score
                /\ speed' = g2.speed
                /\ spawnDelay' = g2.spawnDelay
                /\ nextPair' = g2.nextPair
                /\ contrib' = g2.contrib
                /\ obstacles' = after.obstacles
                /\ gameOverShown' = after.gameOverShown
                /\ overlays' = after.overlays
                /\ restartListeners' = after.restartListeners
                /\ overCalls' = after.calls
                /\ UNCHANGED << priceVars, session >>

\* ------------------------------------------------------------------ input
\* the keydown-SPACE and pointerdown listeners of create()
TryJump ==
    /\ pc = "world"
    /\ player' = JumpBody(gameOverShown, player)
    /\ UNCHANGED << rampVars, timerVars, priceVars, pending, session, pairVars,
                    overVars, obstacles, frameVars >>

\* Restart without the listener: a restart bound to the key or pointer in
\* create() rather than in onGameOver
RestartAnytime(via) ==
    /\ pc = "world"
    /\ via \in DOMAIN NoListeners
    /\ session' = session + 1
    /\ Create
    /\ UNCHANGED << lastPrice, curPrice, priceTrend, hist, applied, pending >>

\* Restart that gives the new session a clean price state: the fetches in
\* flight are cancelled and the price fields go back to their initialisers
RestartCancelling(via) ==
    /\ pc = "world"
    /\ restartListeners[via] > 0
    /\ session' = session + 1
    /\ Create
    /\ pending' = << >>
    /\ lastPrice' = Null
    /\ curPrice' = Null
    /\ priceTrend' = "flat"
    /\ UNCHANGED << hist, applied >>

\* doRestart, reached through one of the one-shot listeners of onGameOver:
\* scene.start shuts the scene down (display list, bodies and listeners go)
\* and runs create() on the same scene object
Restart(via) ==
    /\ pc = "world"
    /\ restartListeners[via] > 0
    /\ session' = session + 1
    /\ Create
    /\ UNCHANGED << lastPrice, curPrice, priceTrend, hist, applied, pending >>

\* ------------------------------------------------------------------- spec
\* an update that issues a fetch needs room among the fetches in flight
FetchRoom ==
    (~gameOverShown /\ priceAcc + frameDelta >= PRICE_INTERVAL_MS)
        => Len(pending) < MaxPending

\* iterations the spawn loop of the coming update will make: one random
\* draw is handed to update for each
RECURSIVE SpawnsDue(_, _)
SpawnsDue(acc, d) == IF acc >= d THEN 1 + SpawnsDue(acc - d, d) ELSE 0

DrawsNeeded == IF gameOverShown THEN 0 ELSE SpawnsDue(spawnAcc + frameDelta, spawnDelay)

\* The scene driven by an environment that offers the frame times `deltas`,
\* reports overlaps at the times `hits` into a step, leaves the coin's body in one of
\* `bodies`, draws random numbers from `draws`, answers the fetches in flight
\* at the positions `slots` (1 the oldest) with one of `resps`, and stops
\* stepping a session at score `cap`.
NextOf(deltas, hits, bodies, draws, resps, slots, cap) ==
    \/ \E delta \in deltas, hitAt \in hits, body \in bodies :
           /\ score < cap
           /\ hitAt > 0 => overCalls < MaxOverCalls
           /\ WorldStep(delta, hitAt, body)
    \/ \E ds \in [ 1..DrawsNeeded -> draws ] : FetchRoom /\ Update(ds)
    \/ TryJump
    \/ \E i \in slots, resp \in resps : FetchComplete(i, resp)
    \/ \E via \in DOMAIN NoListeners :
           session < MaxSessions /\ Restart(via)

\* The game with every frame time, body and overlap report; fetches fail or
\* bring one price, are answered in the order they were issued, and the
\* colour coin is held fixed.
GameResponses ==
    { r \in Responses : r.net = "error" \/ (r.ok /\ r.body.price = P60000) }
GameDraws ==
    { d \in Draws : d.coin /\ d.gapTop = GapTopMin /\ d.gap = gapMin }
InOrder == {1}
AnyOrder == 1..MaxPending
Next ==
    NextOf(Deltas, HitTimes, EngineBodies, GameDraws, GameResponses, InOrder,
           MaxScore)
Spec == Init /\ [][Next]_vars

\* The price poller with every response, answered in any order, under long
\* frames and a coin that stays on the ground.
NextPrice ==
    NextOf(PriceDeltas, HitTimes, {Resting}, GameDraws, Responses, AnyOrder,
           MaxScore)
SpecPrice == Init /\ [][NextPrice]_vars

\* Long sessions: one frame time, a coin that stays on the ground, fetches
\* that fail, and sessions that run on to RampMaxScore.
RampResponses == { r \in Responses : r.net = "error" }
NextRamp ==
    NextOf(RampDeltas, HitTimes, {Resting}, GameDraws, RampResponses, AnyOrder,
           RampMaxScore)
SpecRamp == Init /\ [][NextRamp]_vars

\* The poll timer: frame times from nothing to more than a poll interval, a
\* coin that stays on the ground, fetches that fail or bring one price, in
\* any order.
NextPoll ==
    NextOf(PollDeltas, HitTimes, {Resting}, GameDraws, GameResponses, AnyOrder,
           MaxScore)
SpecPoll == Init /\ [][NextPoll]_vars

\* The spawner: short frames, a coin that stays on the ground, fetches that
\* fail or bring one of two prices, answered in the order they were issued.
\* The first pair of a session is spawned with any of the draws, the later
\* ones with the fixed one.
SpawnDeltas == {1000}
SpawnDraws == IF nextPair = 1 THEN Draws ELSE GameDraws
SpawnResponses ==
    { r \in Responses :
        \/ r.net = "error"
        \/ (r.ok /\ r.body.hasPrice /\ r.body.price \in {P60000, P60500}) }
NextSpawn ==
    NextOf(SpawnDeltas, HitTimes, {Resting}, SpawnDraws, SpawnResponses,
           InOrder, MaxScore)
SpecSpawn == Init /\ [][NextSpawn]_vars

\* ----------------------------------------------------------------- claims
\* pair p was spawned in this session and none of its rectangles is left
Exited(p) ==
    /\ p \in 1..Len(contrib)
    /\ { i \in 1..Len(obstacles) : obstacles[i].pair = p } = { }

\* C1: every obstacle pair that has left the scene past x < -60 has added
\* exactly one to the score, never zero and never two.
C1_ScoredOncePerPair ==
    \A p \in 1..Len(contrib) : Exited(p) => contrib[p] = 1

\* C2: within a session the score never decreases, whatever the event
\* (update, world step, jump, game over, fetch completion); the score goes
\* back to 0 only in a step that starts the scene again.
C2_ScoreMonotonic ==
    [][ /\ session' = session => score' >= score
        /\ score' < score => (session' = session + 1 /\ score' = 0) ]_vars

\* C2 witness: a restarted session that has scored again
C2_Witness == session = 2 /\ score >= 2 /\ Len(contrib) > 0

\* C3: speed stays within 180..420 and spawnDelay within 885..1200; within a
\* session speed never decreases and spawnDelay never increases; they go back
\* to 180 and 1200 only in a step that starts the scene again.
C3_RampBounded ==
    /\ [](speed >= 180 /\ speed <= 420 /\ spawnDelay >= 885 /\ spawnDelay <= 1200)
    /\ [][ /\ session' = session => (speed' >= speed /\ spawnDelay' <= spawnDelay)
           /\ (speed' < speed \/ spawnDelay' > spawnDelay)
                => (session' = session + 1 /\ speed' = 180 /\ spawnDelay' = 1200)
       ]_vars

\* C3 witness: a session that has run past the end of the ramp, so that the
\* cap and the floor have both been applied
C3_Witness == score > 32 /\ speed = 420 /\ spawnDelay = 885

OnGround == player.blockedDown \/ player.touchingDown

\* C4: a jump request changes nothing when the game-over flag is set or the
\* coin has no ground contact; otherwise its only effect is to set the coin's
\* vertical velocity to -630.
C4_JumpOnlyFromGround ==
    [][ TryJump =>
          IF ~gameOverShown /\ OnGround
          THEN /\ player' = [ player EXCEPT !.vy = 0 - 630 ]
               /\ UNCHANGED << rampVars, timerVars, priceVars, pending, session,
                               pairVars, overVars, obstacles, frameVars >>
          ELSE UNCHANGED vars ]_vars

\* C4 witness: a jump has taken effect in a running game
C4_Witness == ~gameOverShown /\ OnGround /\ player.vy = 0 - 630

\* the session's game-over overlay and restart listeners are in place, once
OverInstalledOnce ==
    /\ overlays = 1
    /\ \A ev \in DOMAIN restartListeners : restartListeners[ev] = 1

\* C5: game over is latched and takes effect once per session: however often
\* onGameOver has been called there is one overlay and one pair of restart
\* listeners exactly when the flag is set, and none before; an update that
\* ends with the coin above y = -40 sets the flag; the flag stays set until
\* the scene starts again.
C5_GameOverOnce ==
    /\ [](/\ gameOverShown <=> overCalls > 0
          /\ gameOverShown => OverInstalledOnce
          /\ ~gameOverShown => (overlays = 0 /\ restartListeners = NoListeners))
    /\ [][ /\ (pc = "update" /\ pc' = "world" /\ player.y < 0 - 40)
                => gameOverShown'
           /\ (gameOverShown /\ session' = session) => gameOverShown' ]_vars

\* C5 witness: onGameOver has run again after the one that set the flag
C5_Witness == gameOverShown /\ overCalls = 2 /\ OverInstalledOnce

\* C6: while the game-over flag is set every live obstacle has velocity
\* zero, and no step of that session creates, destroys or moves an obstacle
\* or changes score, speed or spawnDelay.
C6_FrozenAfterGameOver ==
    /\ [](gameOverShown =>
            \A i \in 1..Len(obstacles) :
                obstacles[i].vx = 0 /\ obstacles[i].vy = 0)
    /\ [][ (gameOverShown /\ gameOverShown')
             => UNCHANGED << obstacles, score, speed, spawnDelay >> ]_vars

\* C6 witness: frames have gone by after game over with obstacles on screen
\* and a fetch has completed meanwhile
C6_Witness ==
    /\ gameOverShown
    /\ obstacles # << >>
    /\ overCalls = 2
    /\ pc = "update"
    /\ priceText # InitialPriceLabel

\* C7: with hist the last two prices applied, oldest first: before any
\* sample both prices are null; after the first sample ever applied curPrice
\* is that sample, lastPrice is null and the trend is flat; from the second
\* sample on curPrice is the latest sample, lastPrice the one before, and the
\* trend is flat when they are equal, up when the latest is strictly greater,
\* down when it is strictly smaller.
C7_TrendClassification ==
    /\ Len(hist) = 0 =>
         (curPrice = << >> /\ lastPrice = << >> /\ priceTrend = "flat")
    /\ Len(hist) = 1 =>
         (curPrice = << hist[1] >> /\ lastPrice = << >> /\ priceTrend = "flat")
    /\ Len(hist) = 2 =>
         /\ curPrice = << hist[2] >>
         /\ lastPrice = << hist[1] >>
         /\ hist[2] = hist[1] => priceTrend = "flat"
         /\ hist[2] > hist[1] => priceTrend = "up"
         /\ hist[2] < hist[1] => priceTrend = "down"

\* C7 witness: a falling price after at least two samples
C7_Witness == Len(hist) = 2 /\ hist[2] < hist[1] /\ priceTrend = "down"

\* a fetch that fails or brings no number: the request rejects, the body is
\* not JSON (or is not an object), or its price field spells no number
NoNumber(resp) ==
    \/ resp.net = "error"
    \/ resp.body.json # "object"
    \/ ~resp.body.hasPrice
    \/ resp.body.price = << >>
    \/ ~IsDigit(resp.body.price[1])

FailedFetchStep ==
    \E i \in 1..MaxPending, resp \in Responses :
        NoNumber(resp) /\ FetchComplete(i, resp)

\* C8: the completion of a fetch that failed or brought no number leaves
\* lastPrice, curPrice, priceTrend and the background as they were, and
\* changes neither score, speed, spawnDelay nor the game-over flag.
C8_FailedFetchKeepsState ==
    [][ FailedFetchStep =>
          UNCHANGED << lastPrice, curPrice, priceTrend, bgColor,
                       score, speed, spawnDelay, gameOverShown >> ]_vars

\* C8 witness: a fetch has failed after a rising price was applied, and the
\* price, trend and background are still in place
C8_Witness ==
    /\ priceText = ErrorLabel
    /\ curPrice # << >>
    /\ priceTrend = "up"
    /\ bgColor = BG_BULL

\* C9: every failed fetch (network error, non-OK response, price that is not
\* a number) ends with the price text showing "BTC: fetch error".
C9_EveryFailureShowsError ==
    [][ FailedFetchStep => priceText' = "BTC: fetch error" ]_vars

\* the n-th iterate of the ramp from the base values
RECURSIVE SpeedAfter(_)
SpeedAfter(n) == IF n = 0 THEN BaseSpeed ELSE RampSpeed(SpeedAfter(n - 1))
RECURSIVE SpawnDelayAfter(_)
SpawnDelayAfter(n) ==
    IF n = 0 THEN BaseSpawnDelay ELSE RampSpawnDelay(SpawnDelayAfter(n - 1))

\* C10: after n scoring events of a session speed = min(180 + 8n, 420) and
\* spawnDelay = max(1200 - 10n, 885), for every n up to the session's score
\* and for the score itself: 260 and 1100 after 10 events, the cap 420
\* first at the 30th event and the floor 885 first at the 32nd.
C10_RampClosedForm ==
    /\ speed = Min(180 + 8 * score, 420)
    /\ spawnDelay = Max(1200 - 10 * score, 885)
    /\ \A n \in 0..score :
         /\ SpeedAfter(n) = Min(180 + 8 * n, 420)
         /\ SpawnDelayAfter(n) = Max(1200 - 10 * n, 885)
         /\ SpeedAfter(n) = 420 <=> n >= 30
         /\ SpawnDelayAfter(n) = 885 <=> n >= 32
    /\ score = 10 => (speed = 260 /\ spawnDelay = 1100)
    /\ speed = 420 <=> score >= 30
    /\ spawnDelay = 885 <=> score >= 32

\* C10 witness: the session has just made its 32nd scoring event
C10_Witness == score = 32 /\ spawnDelay = 885 /\ speed = 420

\* the values create() leaves behind
SessionStart ==
    /\ score = 0
    /\ speed = 180
    /\ spawnDelay = 1200
    /\ spawnAcc = 0
    /\ gameOverShown = FALSE
    /\ priceAcc = PRICE_INTERVAL_MS

\* a step that is a call of update()
UpdateStep == pc = "update" /\ pc' = "world"

\* C11: the first create() and every restart leave score = 0, speed = 180,
\* spawnDelay = 1200, spawnAcc = 0, gameOverShown = false and priceAcc =
\* PRICE_INTERVAL_MS; the first update() of the session, whatever its delta
\* >= 0, issues exactly one fetch and sets priceAcc to 0.  The first update
\* of a session is the one that finds priceAcc at PRICE_INTERVAL_MS: no other
\* handler writes priceAcc within a session, and every update leaves it below.
C11_InitForcesFetch ==
    /\ SessionStart
    /\ [][ /\ session' # session => SessionStart'
           /\ (session' = session /\ ~UpdateStep) => priceAcc' = priceAcc
           /\ UpdateStep => priceAcc' < PRICE_INTERVAL_MS
           /\ (UpdateStep /\ priceAcc = PRICE_INTERVAL_MS)
                => /\ gameOverShown = FALSE
                   /\ pending' = Append(pending, NewFetch(session))
                   /\ priceAcc' = 0 ]_vars

\* C11 witness: the first update of a restarted session had a delta of 0,
\* and its fetch is in flight
C11_Witness ==
    /\ session = 2
    /\ pc = "world"
    /\ priceAcc = 0
    /\ spawnAcc = 0
    /\ obstacles = << >>
    /\ pending # << >>
    /\ pending[Len(pending)].session = 2

\* C12: the scene starts again only from a state with gameOverShown set, and
\* lands in the session-start state; the flag is set only within a session
\* and cleared only by a restart.  While playing no restart listener is
\* registered, so no key or pointer press restarts the scene and a jump
\* request never changes the session; in game over both presses have their
\* restart listener, and the jump request that comes with the press leaves
\* the coin as it is.
C12_Lifecycle ==
    /\ [](/\ ~gameOverShown => restartListeners = NoListeners
          /\ gameOverShown =>
                /\ \A ev \in {"pointerdown", "keydown"} : restartListeners[ev] = 1
                /\ JumpBody(gameOverShown, player) = player)
    /\ [][ /\ session' # session
                => (gameOverShown /\ session' = session + 1 /\ SessionStart')
           /\ (gameOverShown /\ ~gameOverShown') => session' = session + 1
           /\ (~gameOverShown /\ gameOverShown') => session' = session
           /\ TryJump => session' = session ]_vars

\* C12 witness: a game that went over, was restarted and went over again
C12_Witness ==
    /\ session = 2
    /\ gameOverShown
    /\ \A ev \in {"pointerdown", "keydown"} : restartListeners[ev] = 1

\* rectangles of the group that stand where spawnObstacle puts them
AtSpawn == { i \in 1..Len(obstacles) : obstacles[i].x = spawnX }

\* C13: a playing update with a = spawnAcc + delta and d = spawnDelay at its
\* start spawns floor(a / d) pairs, two rectangles each, and leaves spawnAcc
\* at a - d * floor(a / d), within 0 .. d - 1: the interval is subtracted per
\* spawn, never reset; d is positive, so the loop ends.
C13_SpawnPerInterval ==
    /\ [](spawnDelay > 0 /\ spawnAcc >= 0)
    /\ [][ (UpdateStep /\ ~gameOverShown) =>
             LET a == spawnAcc + frameDelta
                 d == spawnDelay
                 n == a \div d
             IN  /\ nextPair' = nextPair + n
                 /\ Len(contrib') = Len(contrib) + n
                 /\ Cardinality({ i \in 1..Len(obstacles') :
                                    obstacles'[i].pair >= nextPair }) = 2 * n
                 /\ spawnAcc' = a - d * n
                 /\ spawnAcc' >= 0 /\ spawnAcc' < d ]_vars

\* C13 witness: one update has spawned several pairs and carried the
\* remainder of the accumulated time over
C13_Witness ==
    /\ pc = "world"
    /\ Cardinality(AtSpawn) >= 4
    /\ spawnAcc > 0
    /\ spawnAcc < spawnDelay

\* C14: a playing update issues one fetch exactly when priceAcc + delta has
\* reached PRICE_INTERVAL_MS, and then sets priceAcc to 0 whatever the
\* overshoot; otherwise it issues none and keeps the sum.  An update after
\* game over issues none, and no other event adds a fetch.
C14_OneFetchPerUpdate ==
    [][ /\ (UpdateStep /\ ~gameOverShown
              /\ priceAcc + frameDelta >= PRICE_INTERVAL_MS)
             => (pending' = Append(pending, NewFetch(session)) /\ priceAcc' = 0)
        /\ (UpdateStep /\ ~gameOverShown
              /\ priceAcc + frameDelta < PRICE_INTERVAL_MS)
             => (pending' = pending /\ priceAcc' = priceAcc + frameDelta)
        /\ (UpdateStep /\ gameOverShown)
             => (pending' = pending /\ priceAcc' = priceAcc)
        /\ ~UpdateStep => Len(pending') <= Len(pending) ]_vars

\* C14 witness: an update later than the session's first has taken a frame
\* longer than the poll interval (five pairs spawned at once) and left one
\* fetch in flight and priceAcc at 0
C14_Witness ==
    /\ pc = "world"
    /\ score > 0
    /\ Cardinality(AtSpawn) >= 10
    /\ priceAcc = 0
    /\ Len(pending) = 1

\* sequence a is the beginning of sequence b
IsPrefix(a, b) == Len(a) <= Len(b) /\ SubSeq(b, 1, Len(a)) = a

\* C15: update() neither waits for nor consumes the fetches in flight: it
\* only ever appends to them, leaves the price state alone and runs its
\* spawn timer all the same.  A fetch that completes with a number is
\* applied whatever its place among the fetches in flight: curPrice becomes
\* its price, lastPrice the price that was current (that of the fetch
\* completed before it), and the trend compares the two.  So when fetch A was
\* issued before B and completes after it (overtaken), curPrice is A's
\* price and lastPrice B's.
C15_LastCompletedWins ==
    /\ []((applied # << >> /\ applied[1].overtaken) =>
            /\ Len(hist) = 2
            /\ curPrice = << hist[2] >>
            /\ lastPrice = << hist[1] >>)
    /\ [][ /\ (UpdateStep /\ ~gameOverShown) =>
               /\ IsPrefix(pending, pending')
               /\ UNCHANGED << lastPrice, curPrice, priceTrend, bgColor,
                               priceText >>
               /\ spawnAcc' = (spawnAcc + frameDelta) % spawnDelay
           /\ \A i \in 1..MaxPending, resp \in Responses :
                (FetchComplete(i, resp) /\ ~NoNumber(resp)) =>
                   LET a == parseFloat(resp.body.price)
                   IN  /\ curPrice' = a
                       /\ lastPrice' = IF curPrice = << >> THEN lastPrice
                                       ELSE curPrice
                       /\ applied' = << pending[i] >>
                       /\ priceTrend' =
                             IF lastPrice' = << >> \/ a = lastPrice' THEN "flat"
                             ELSE IF a[1] > lastPrice'[1] THEN "up"
                             ELSE "down" ]_vars

\* C15 witness: the fetch answered with 60000 was issued before the one
\* answered with 60500 and completed after it
C15_Witness ==
    /\ applied # << >>
    /\ applied[1].overtaken
    /\ hist = << 60500, 60000 >>
    /\ curPrice = << 60000 >>
    /\ lastPrice = << 60500 >>
    /\ priceTrend = "down"

\* the fetch at position i was issued in an earlier session, or the game of
\* its session is over
Stale(i) == gameOverShown \/ pending[i].session < session

\* C16: neither game over nor a restart cancels a fetch in flight, and a
\* restart leaves lastPrice, curPrice and priceTrend as they are.  A fetch
\* that completes with a number after the game is over, or after the scene
\* has started again, still overwrites lastPrice, curPrice, priceTrend and
\* the background.
C16_StaleFetchApplies ==
    [][ /\ (\/ session' # session
            \/ (~gameOverShown /\ gameOverShown'))
             => /\ IsPrefix(pending, pending')
                /\ UNCHANGED << lastPrice, curPrice, priceTrend >>
        /\ \A i \in 1..MaxPending, resp \in Responses :
             (FetchComplete(i, resp) /\ ~NoNumber(resp) /\ Stale(i)) =>
                /\ curPrice' = parseFloat(resp.body.price)
                /\ lastPrice' = IF curPrice = << >> THEN lastPrice ELSE curPrice
                /\ priceTrend' =
                      IF lastPrice' = << >> \/ curPrice' = lastPrice' THEN "flat"
                      ELSE IF curPrice'[1] > lastPrice'[1] THEN "up"
                      ELSE "down"
                /\ bgColor' = IF priceTrend' = "up" THEN BG_BULL ELSE BG_BEAR
                /\ UNCHANGED << gameOverShown, session >> ]_vars

\* C16 witness: the price in place in the second session, and the bullish
\* background, come from a fetch of the first session that completed after
\* the restart
C16_Witness ==
    /\ session = 2
    /\ applied # << >>
    /\ applied[1].session = 1
    /\ curPrice = << 60500 >>
    /\ lastPrice = << 60000 >>
    /\ priceTrend = "up"
    /\ bgColor = BG_BULL
    /\ priceText = "BTC: 60,500 USDT"

\* the rectangles the coming update() adds to the group, as they stand when
\* it returns
Spawned(i) == obstacles'[i].pair >= nextPair

\* C17: the two rectangles of a pair have one colour; a pair spawned while
\* the trend is up is bullish, one spawned while it is down is bearish, and
\* while it is flat it is one of the two.  Both rectangles are created with
\* horizontal velocity -speed and without gravity, and no obstacle ever has
\* gravity or a vertical velocity.
C17_PairColourByTrend ==
    /\ [](\A i, j \in 1..Len(obstacles) :
            /\ obstacles[i].allowGravity = FALSE
            /\ obstacles[i].vy = 0
            /\ obstacles[i].pair = obstacles[j].pair
                 => obstacles[i].color = obstacles[j].color)
    /\ [][ (UpdateStep /\ ~gameOverShown) =>
             /\ \A i \in 1..Len(obstacles') :
                  Spawned(i) =>
                    /\ priceTrend = "up" => obstacles'[i].color = "0x2ea043"
                    /\ priceTrend = "down" => obstacles'[i].color = "0xf85149"
                    /\ obstacles'[i].color \in {"0x2ea043", "0xf85149"}
                    /\ obstacles'[i].allowGravity = FALSE
                    /\ speed' = speed => obstacles'[i].vx = 0 - speed
             /\ \A d \in Draws, k \in 1..2 :
                  /\ SpawnPair(nextPair, priceTrend, speed, d)[k].vx = 0 - speed
                  /\ SpawnPair(nextPair, priceTrend, speed, d)[k].allowGravity
                       = FALSE ]_vars

\* C17 witness: a bearish pair on screen that was spawned with the coin on
\* the bullish side (every pair after a session's first is), so its colour
\* came from a falling trend
C17_Witness ==
    /\ priceTrend = "down"
    /\ \E i \in 1..Len(obstacles) :
         obstacles[i].pair >= 2 /\ obstacles[i].color = CANDLE_BEAR

Opening(top, bottom) == bottom.yTop - (top.yTop + top.h)

\* C19: for every pair, the opening between its top and its bottom rectangle
\* is at least the gap size drawn for it.
C19_OpeningAtLeastGap ==
    \A i, j \in 1..Len(obstacles) :
        (/\ obstacles[i].pair = obstacles[j].pair
         /\ obstacles[i].piece = "top"
         /\ obstacles[j].piece = "bottom")
          => Opening(obstacles[i], obstacles[j]) >= obstacles[i].gap

\* C20: in every state the background is BG_BULL exactly when the trend is
\* up and BG_BEAR when it is flat or down; with the prices 60000 and 60500
\* applied it is bearish after the first and bullish after the second.
C20_BackgroundFollowsTrend ==
    /\ priceTrend = "up" => bgColor = "0x0f1a12"
    /\ priceTrend \in {"flat", "down"} => bgColor = "0x0f141a"
    /\ hist = << 60000 >> => bgColor = "0x0f141a"
    /\ hist = << 60000, 60500 >> => bgColor = "0x0f1a12"

====
